---- MODULE Spec2Model ----
(***************************************************************************)
(* State-machine model of the Swarm window manager                         *)
(* (Swarm/Framework/source/Window.cpp).                                    *)
(*                                                                         *)
(* The manager owns a native window handle (m_window), a camera            *)
(* (m_camera), the stored base title (windowTitle_) and the FPS counter    *)
(* state (fpsCount_, currentTime_, lastUpdate_); m_instance points to the  *)
(* manager, the instances-th one constructed.  The windowing library is    *)
(* modelled by the native windows it has created (windows), its clock      *)
(* (clock) and whether glfwInit succeeded (glfwInitialized).  Every        *)
(* method of Window is an operator from a state record to a state record;  *)
(* an action applies one method to the current state.                      *)
(*                                                                         *)
(* History variables, written by every action:                             *)
(*   op     the operation that ran last and its inputs                     *)
(*   trace  the library calls that operation issued, in order              *)
(*   ret    the value it returned (0 for void)                             *)
(***************************************************************************)
EXTENDS Integers, Sequences, FiniteSets, TLC

VARIABLES m_instance, instances, m_window, m_camera, windowTitle_,
          fpsCount_, currentTime_, lastUpdate_, windows, clock,
          glfwInitialized, alive, keyPresses, op, trace, ret

vars == <<m_instance, instances, m_window, m_camera, windowTitle_,
          fpsCount_, currentTime_, lastUpdate_, windows, clock,
          glfwInitialized, alive, keyPresses, op, trace, ret>>

(***************************************************************************)
(* Bounds of the model.                                                    *)
(***************************************************************************)
\* native windows glfwCreateWindow may create in one run
MaxWindows == 2
\* clock ticks in one second (the resolution of the modelled clock)
TicksPerSecond == 2
\* last clock value a run reads
MaxTime == 4
\* cap of the frame counter
MaxFrames == 3
\* key events a run acts on (caps the camera's walk)
MaxKeyPresses == 2
\* managers constructed in one run
MaxInstances == 2

(***************************************************************************)
(* Constants of the program and of the windowing library it is built on.   *)
(***************************************************************************)
NULL == 0

GLFW_RELEASE == 0
GLFW_PRESS == 1
GLFW_REPEAT == 2

GLFW_KEY_W == 87
GLFW_KEY_S == 83
GLFW_KEY_A == 65
GLFW_KEY_D == 68
GLFW_KEY_Q == 81
GLFW_KEY_E == 69
GLFW_KEY_R == 82
GLFW_KEY_RIGHT == 262
GLFW_KEY_LEFT == 263
GLFW_KEY_DOWN == 264
GLFW_KEY_UP == 265
\* a key handleKeyEvent has no case for
GLFW_KEY_SPACE == 32

\* the GLenum values openglErrorCallback switches on
GL_DEBUG_SOURCE_API == 33350
GL_DEBUG_SOURCE_WINDOW_SYSTEM == 33351
GL_DEBUG_SOURCE_SHADER_COMPILER == 33352
GL_DEBUG_SOURCE_THIRD_PARTY == 33353
GL_DEBUG_SOURCE_APPLICATION == 33354
GL_DEBUG_SOURCE_OTHER == 33355
GL_DEBUG_TYPE_ERROR == 33356
GL_DEBUG_TYPE_DEPRECATED_BEHAVIOR == 33357
GL_DEBUG_TYPE_UNDEFINED_BEHAVIOR == 33358
GL_DEBUG_TYPE_PORTABILITY == 33359
GL_DEBUG_TYPE_PERFORMANCE == 33360
GL_DEBUG_TYPE_OTHER == 33361
GL_DEBUG_TYPE_MARKER == 33384
GL_DEBUG_TYPE_PUSH_GROUP == 33385
GL_DEBUG_TYPE_POP_GROUP == 33386
GL_DEBUG_SEVERITY_NOTIFICATION == 33387
GL_DEBUG_SEVERITY_HIGH == 37190
GL_DEBUG_SEVERITY_MEDIUM == 37191
GL_DEBUG_SEVERITY_LOW == 37192

\* default dimensions of open(title), declared in Window.hpp
WIDTH == 800
HEIGHT == 600

MappedKeys == {GLFW_KEY_W, GLFW_KEY_S, GLFW_KEY_A, GLFW_KEY_D, GLFW_KEY_Q,
               GLFW_KEY_E, GLFW_KEY_LEFT, GLFW_KEY_RIGHT, GLFW_KEY_UP,
               GLFW_KEY_DOWN, GLFW_KEY_R}

(***************************************************************************)
(* Input sets.                                                             *)
(***************************************************************************)
Titles == {"A", "B"}
Sizes == {<<800, 600>>, <<640, 480>>}
Keys == MappedKeys \cup {GLFW_KEY_SPACE}
KeyActions == {GLFW_RELEASE, GLFW_PRESS, GLFW_REPEAT}
ScanCodes == {0, 1}
Mods == {0, 1}

(***************************************************************************)
(* Strings the native window displays.  A title is either the plain text   *)
(* handed to the library or the text computeFPS formats: the base title,   *)
(* the frames per second in tenths and the milliseconds per frame.         *)
(***************************************************************************)
Plain(t) ==
    [text |-> t, formatted |-> FALSE, fps10 |-> 0, ms |-> 0, inf |-> FALSE]

\* num / den rounded to the nearest integer, as %3.1f and %3.3f round
RoundDiv(num, den) == (2 * num + den) \div (2 * den)

\* sprintf_s( fps, "%s: %3.1f FPS || %3.3f ms/frame", title, ifps, framesPerms )
\* with framesPerms = timeDiff * 1000 / fpsCount_ and ifps = fpsCount_ / timeDiff;
\* timeDiff is in ticks, fps in tenths, ms/frame in whole milliseconds; a
\* division of doubles by 0.0 gives infinity (inf)
FormatFPS(t, count, timeDiff) ==
    [text |-> t, formatted |-> TRUE,
     fps10 |-> RoundDiv(count * TicksPerSecond * 10, timeDiff),
     ms |-> IF count = 0 THEN 0
            ELSE RoundDiv(timeDiff * 1000, count * TicksPerSecond),
     inf |-> count = 0]

(***************************************************************************)
(* The camera (Camera.cpp is not part of the sources; modelled from the    *)
(* operations Window.cpp calls).  Vectors are integer 4-tuples; direction  *)
(* vectors are in tenths (10 is length 1), angles in degrees.              *)
(***************************************************************************)
DefaultEyePoint == <<0, 0, 500, 1>>

\* Camera( CameraType::PERSPECTIVE )
Camera(type) ==
    [type |-> type, eye |-> DefaultEyePoint, yaw |-> 0, pitch |-> 0,
     near |-> 0, far |-> 0, windowSize |-> <<0, 0>>]

setDistancePlanes(cam, near, far) == [cam EXCEPT !.near = near, !.far = far]

setWindowSize(cam, w, h) == [cam EXCEPT !.windowSize = <<w, h>>]

setEyePointCam(cam, p) == [cam EXCEPT !.eye = p]

\* 10 * sin(a) for the small angles the model reaches, rounded
Sin10(a) == RoundDiv(a * 87, 500)

viewDirection(cam) == <<-Sin10(cam.yaw), Sin10(cam.pitch), -10, 0>>

horizontalDirection(cam) == <<-10, 0, Sin10(cam.yaw), 0>>

upDirection(cam) == <<0, 10, Sin10(cam.pitch), 0>>

\* direction * f, the direction being in tenths
Scaled(dir, f) == [i \in 1..4 |-> (dir[i] * f) \div 10]

translateEyePoint(cam, v) ==
    [cam EXCEPT !.eye = [i \in 1..4 |-> cam.eye[i] + v[i]]]

rotateYaw(cam, a) == [cam EXCEPT !.yaw = @ + a]

rotatePitch(cam, a) == [cam EXCEPT !.pitch = @ + a]

resetAngles(cam) == [cam EXCEPT !.yaw = 0, !.pitch = 0]

(***************************************************************************)
(* The windowing library.  A native window keeps its size, the title it    *)
(* displays, the callbacks registered on it and its should-close flag.     *)
(* The library never destroys a window unless asked to.                    *)
(***************************************************************************)
\* glfwCreateWindow( width, height, title, NULL, NULL )
NativeWindow(size, t) ==
    [size |-> size, title |-> Plain(t), keyCallback |-> FALSE,
     sizeCallback |-> FALSE, framebufferCallback |-> FALSE,
     scrollCallback |-> FALSE, shouldClose |-> FALSE]

\* the state record the methods work on
State ==
    [m_instance |-> m_instance, instances |-> instances,
     m_window |-> m_window, m_camera |-> m_camera,
     windowTitle_ |-> windowTitle_, fpsCount_ |-> fpsCount_,
     currentTime_ |-> currentTime_, lastUpdate_ |-> lastUpdate_,
     windows |-> windows, clock |-> clock, alive |-> alive,
     keyPresses |-> keyPresses, trace |-> <<>>, ret |-> 0]

\* a library call, recorded in the order it is issued
Call(s, name) ==
    [s EXCEPT !.trace = Append(@, [f |-> name, nullHandle |-> FALSE])]

\* a library call that is handed the absent handle
CallNull(s, name) ==
    [s EXCEPT !.trace = Append(@, [f |-> name, nullHandle |-> TRUE])]

Return(s, v) == [s EXCEPT !.ret = v]

\* a division by the frame counter, recorded with the divisor
Divided(s, by) ==
    [s EXCEPT !.trace = Append(@, [f |-> "operator/", nullHandle |-> FALSE,
                                   divisor |-> by])]

(***************************************************************************)
(* The singleton.                                                          *)
(***************************************************************************)
\* Window::Window(); t: what the two glfwGetTime calls return.  The
\* constructor gives fpsCount_ and windowTitle_ no value: they start as
\* their declarations in Window.hpp leave them, taken to be 0 and "".
Window(s, t) ==
    LET s1 == [s EXCEPT !.m_window = NULL,
                        !.m_camera = Camera("PERSPECTIVE"),
                        !.windowTitle_ = "", !.fpsCount_ = 0,
                        !.currentTime_ = t, !.lastUpdate_ = t]
        s2 == Call(Call(Call(s1, "glfwGetTime"), "glfwGetTime"), "glfwInit")
    IN  IF glfwInitialized
        THEN [s2 EXCEPT !.m_camera = setDistancePlanes(@, 1, 10000)]
        ELSE s2

\* getInstance() that constructs a manager at every call
getInstance_always(s) ==
    Return([Window(s, s.clock) EXCEPT !.instances = @ + 1,
                                      !.m_instance = s.instances + 1],
           s.instances + 1)

\* Window * Window::getInstance(); the clock of the library stands at 0
\* until glfwInit ran
getInstance(s) ==
    IF NULL = s.m_instance
    THEN Return([Window(s, s.clock) EXCEPT !.instances = @ + 1,
                                           !.m_instance = s.instances + 1],
                s.instances + 1)
    ELSE Return(s, s.m_instance)

(***************************************************************************)
(* Window lifecycle.                                                       *)
(***************************************************************************)
\* GLboolean Window::isOpen() const
isOpen(s) == NULL # s.m_window

\* void Window::setActive()
setActive(s) ==
    IF isOpen(s) THEN Call(s, "glfwMakeContextCurrent") ELSE s

\* setWindowTitle() that also stores the title
setWindowTitle_stores(s, shown) ==
    IF isOpen(s)
    THEN [Call([s EXCEPT !.windows[s.m_window].title = shown],
               "glfwSetWindowTitle") EXCEPT !.windowTitle_ = shown.text]
    ELSE s

\* void Window::setWindowTitle( const char* _title ); _title is the string
\* the native window is to display
setWindowTitle(s, shown) ==
    IF isOpen(s)
    THEN Call([s EXCEPT !.windows[s.m_window].title = shown],
              "glfwSetWindowTitle")
    ELSE s

\* close() that also puts the camera back to where it was constructed
close_resetsCamera(s) ==
    IF isOpen(s)
    THEN [s EXCEPT !.windows[s.m_window].keyCallback = FALSE,
                   !.windows[s.m_window].sizeCallback = FALSE,
                   !.windows[s.m_window].framebufferCallback = FALSE,
                   !.windows[s.m_window].shouldClose = FALSE,
                   !.m_window = NULL,
                   !.m_camera = resetAngles(setEyePointCam(@, DefaultEyePoint))]
    ELSE s

\* close() that unregisters the callbacks and keeps the handle
close_keepsHandle(s) ==
    IF isOpen(s)
    THEN [s EXCEPT !.windows[s.m_window].keyCallback = FALSE,
                   !.windows[s.m_window].sizeCallback = FALSE,
                   !.windows[s.m_window].framebufferCallback = FALSE,
                   !.windows[s.m_window].shouldClose = FALSE]
    ELSE s

\* void Window::close()
close(s) ==
    IF isOpen(s)
    THEN LET s1 == Call([s EXCEPT !.windows[s.m_window].keyCallback = FALSE],
                        "glfwSetKeyCallback")
             s2 == Call([s1 EXCEPT !.windows[s.m_window].sizeCallback = FALSE],
                        "glfwSetWindowSizeCallback")
             s3 == Call([s2 EXCEPT
                           !.windows[s.m_window].framebufferCallback = FALSE],
                        "glfwSetFramebufferSizeCallback")
             s4 == Call([s3 EXCEPT !.windows[s.m_window].shouldClose = FALSE],
                        "glfwSetWindowShouldClose")
         IN  [s4 EXCEPT !.m_window = NULL]
    ELSE s

\* lines 82-91 of open: error callback, window hints, glfwCreateWindow.
\* created: the library could create the window (else it returns NULL)
createWindow(s, t, size, created) ==
    LET h1 == Call(Call(s, "glfwSetErrorCallback"), "glfwWindowHint")
        h2 == Call(Call(h1, "glfwWindowHint"), "glfwWindowHint")
        s1 == Call(h2, "glfwWindowHint")
        s2 == Call(s1, "glfwCreateWindow")
    IN  IF created
        THEN [s2 EXCEPT !.windows = Append(@, NativeWindow(size, t)),
                        !.m_window = Len(s.windows) + 1]
        ELSE [s2 EXCEPT !.m_window = NULL]

\* lines 128-134 of open: v-sync and the debug-message reporting
enableDebugOutput(s) ==
    LET s1 == Call(s, "glfwSwapInterval")
        s2 == Call(Call(s1, "glEnable"), "glEnable")
    IN  Call(Call(s2, "glDebugMessageCallback"), "glDebugMessageControl")

\* lines 120-134 of open with a present handle: the four callbacks,
\* v-sync, the debug-message reporting
registerCallbacks(s) ==
    LET w == s.m_window
        s1 == Call([s EXCEPT !.windows[w].keyCallback = TRUE],
                   "glfwSetKeyCallback")
        s2 == Call([s1 EXCEPT !.windows[w].sizeCallback = TRUE],
                   "glfwSetWindowSizeCallback")
        s3 == Call([s2 EXCEPT !.windows[w].framebufferCallback = TRUE],
                   "glfwSetFramebufferSizeCallback")
        s4 == Call([s3 EXCEPT !.windows[w].scrollCallback = TRUE],
                   "glfwSetScrollCallback")
    IN  enableDebugOutput(s4)

\* lines 120-134 of open with the absent handle.  glfwSetKeyCallback( NULL, f )
\* dereferences the handle: the build either ends the process there
\* (crash) or the four calls change no window and open goes on.
registerCallbacksNull(s, crash) ==
    IF crash
    THEN [CallNull(s, "glfwSetKeyCallback") EXCEPT !.alive = FALSE]
    ELSE LET s1 == CallNull(s, "glfwSetKeyCallback")
             s2 == CallNull(s1, "glfwSetWindowSizeCallback")
             s3 == CallNull(s2, "glfwSetFramebufferSizeCallback")
             s4 == CallNull(s3, "glfwSetScrollCallback")
         IN  enableDebugOutput(s4)

\* open() that stores the title and the camera's window size before it
\* tests isOpen()
open_storesFirst(s, t, size, created, glewOk, supported, crash) ==
    LET s0 == [s EXCEPT !.windowTitle_ = t,
                        !.m_camera = setWindowSize(@, size[1], size[2])]
    IN  IF ~isOpen(s)
        THEN LET s1 == createWindow(s0, t, size, created)
                 s2 == Call(setActive(s1), "glewInit")
                 s3 == IF ~glewOk THEN close(s2) ELSE s2
                 s4 == IF ~supported THEN close(Call(s3, "glewIsSupported"))
                                     ELSE Call(s3, "glewIsSupported")
             IN  IF isOpen(s4) THEN registerCallbacks(s4)
                               ELSE registerCallbacksNull(s4, crash)
        ELSE s0

\* void Window::open( _title, _pixelWidth, _pixelHeight ).
\* created, glewOk, supported: the outcomes of glfwCreateWindow, glewInit
\* and glewIsSupported; crash: the outcome of a call on the absent handle
open(s, t, size, created, glewOk, supported, crash) ==
    IF ~isOpen(s)
    THEN LET s1 == createWindow(s, t, size, created)
             s2 == Call(setActive(s1), "glewInit")
             s3 == IF ~glewOk THEN close(s2) ELSE s2
             s4 == IF ~supported THEN close(Call(s3, "glewIsSupported"))
                                 ELSE Call(s3, "glewIsSupported")
             s5 == [s4 EXCEPT !.m_camera =
                                 setWindowSize(@, size[1], size[2])]
             s6 == IF isOpen(s5) THEN registerCallbacks(s5)
                                 ELSE registerCallbacksNull(s5, crash)
         IN  IF s6.alive THEN [s6 EXCEPT !.windowTitle_ = t] ELSE s6
    ELSE s

\* void Window::open( std::string const& _title )
openDefault(s, t, created, glewOk, supported, crash) ==
    open(s, t, <<WIDTH, HEIGHT>>, created, glewOk, supported, crash)

\* getWidth() that asks the library for the size of the window it created
\* last, without testing isOpen()
getWidth_untested(s) ==
    IF s.windows # <<>>
    THEN Return(Call(s, "glfwGetWindowSize"),
                s.windows[Len(s.windows)].size[1])
    ELSE Return(s, 0)

\* GLuint Window::getWidth() const
getWidth(s) ==
    IF isOpen(s)
    THEN Return(Call(s, "glfwGetWindowSize"), s.windows[s.m_window].size[1])
    ELSE Return(s, 0)

\* GLuint Window::getHeight() const
getHeight(s) ==
    IF isOpen(s)
    THEN Return(Call(s, "glfwGetWindowSize"), s.windows[s.m_window].size[2])
    ELSE Return(s, 0)

(***************************************************************************)
(* Input dispatch.                                                         *)
(***************************************************************************)
\* the switch with a reset case that leaves the angles
keySwitch_resetKeepsAngles(cam, key) ==
    CASE key = GLFW_KEY_W ->
           translateEyePoint(cam, Scaled(viewDirection(cam), 10))
      [] key = GLFW_KEY_S ->
           translateEyePoint(cam, Scaled(viewDirection(cam), -10))
      [] key = GLFW_KEY_A ->
           translateEyePoint(cam, Scaled(horizontalDirection(cam), 10))
      [] key = GLFW_KEY_D ->
           translateEyePoint(cam, Scaled(horizontalDirection(cam), -10))
      [] key = GLFW_KEY_Q ->
           translateEyePoint(cam, Scaled(upDirection(cam), 10))
      [] key = GLFW_KEY_E ->
           translateEyePoint(cam, Scaled(upDirection(cam), -10))
      [] key = GLFW_KEY_LEFT -> rotateYaw(cam, 5)
      [] key = GLFW_KEY_RIGHT -> rotateYaw(cam, -5)
      [] key = GLFW_KEY_UP -> rotatePitch(cam, 5)
      [] key = GLFW_KEY_DOWN -> rotatePitch(cam, -5)
      [] key = GLFW_KEY_R ->
           setEyePointCam(cam, <<0, 0, 500, 1>>)
      [] OTHER -> cam

\* the switch with an A case that also turns the camera
keySwitch_strafeTurns(cam, key) ==
    CASE key = GLFW_KEY_W ->
           translateEyePoint(cam, Scaled(viewDirection(cam), 10))
      [] key = GLFW_KEY_S ->
           translateEyePoint(cam, Scaled(viewDirection(cam), -10))
      [] key = GLFW_KEY_A ->
           rotateYaw(translateEyePoint(cam,
               Scaled(horizontalDirection(cam), 10)), 5)
      [] key = GLFW_KEY_D ->
           translateEyePoint(cam, Scaled(horizontalDirection(cam), -10))
      [] key = GLFW_KEY_Q ->
           translateEyePoint(cam, Scaled(upDirection(cam), 10))
      [] key = GLFW_KEY_E ->
           translateEyePoint(cam, Scaled(upDirection(cam), -10))
      [] key = GLFW_KEY_LEFT -> rotateYaw(cam, 5)
      [] key = GLFW_KEY_RIGHT -> rotateYaw(cam, -5)
      [] key = GLFW_KEY_UP -> rotatePitch(cam, 5)
      [] key = GLFW_KEY_DOWN -> rotatePitch(cam, -5)
      [] key = GLFW_KEY_R ->
           resetAngles(setEyePointCam(cam, <<0, 0, 500, 1>>))
      [] OTHER -> cam

\* the switch with an S case of half the step
keySwitch_shortBack(cam, key) ==
    CASE key = GLFW_KEY_W ->
           translateEyePoint(cam, Scaled(viewDirection(cam), 10))
      [] key = GLFW_KEY_S ->
           translateEyePoint(cam, Scaled(viewDirection(cam), -5))
      [] key = GLFW_KEY_A ->
           translateEyePoint(cam, Scaled(horizontalDirection(cam), 10))
      [] key = GLFW_KEY_D ->
           translateEyePoint(cam, Scaled(horizontalDirection(cam), -10))
      [] key = GLFW_KEY_Q ->
           translateEyePoint(cam, Scaled(upDirection(cam), 10))
      [] key = GLFW_KEY_E ->
           translateEyePoint(cam, Scaled(upDirection(cam), -10))
      [] key = GLFW_KEY_LEFT -> rotateYaw(cam, 5)
      [] key = GLFW_KEY_RIGHT -> rotateYaw(cam, -5)
      [] key = GLFW_KEY_UP -> rotatePitch(cam, 5)
      [] key = GLFW_KEY_DOWN -> rotatePitch(cam, -5)
      [] key = GLFW_KEY_R ->
           resetAngles(setEyePointCam(cam, <<0, 0, 500, 1>>))
      [] OTHER -> cam

\* the switch of Window::handleKeyEvent( _key, _action, _mods )
keySwitch(cam, key) ==
    CASE key = GLFW_KEY_W ->
           translateEyePoint(cam, Scaled(viewDirection(cam), 10))
      [] key = GLFW_KEY_S ->
           translateEyePoint(cam, Scaled(viewDirection(cam), -10))
      [] key = GLFW_KEY_A ->
           translateEyePoint(cam, Scaled(horizontalDirection(cam), 10))
      [] key = GLFW_KEY_D ->
           translateEyePoint(cam, Scaled(horizontalDirection(cam), -10))
      [] key = GLFW_KEY_Q ->
           translateEyePoint(cam, Scaled(upDirection(cam), 10))
      [] key = GLFW_KEY_E ->
           translateEyePoint(cam, Scaled(upDirection(cam), -10))
      [] key = GLFW_KEY_LEFT -> rotateYaw(cam, 5)
      [] key = GLFW_KEY_RIGHT -> rotateYaw(cam, -5)
      [] key = GLFW_KEY_UP -> rotatePitch(cam, 5)
      [] key = GLFW_KEY_DOWN -> rotatePitch(cam, -5)
      [] key = GLFW_KEY_R ->
           resetAngles(setEyePointCam(cam, <<0, 0, 500, 1>>))
      [] OTHER -> cam

\* handleKeyEvent() that does not look at the action
handleKeyEvent_anyAction(s, key, action, mods) ==
    IF isOpen(s)
    THEN [s EXCEPT !.m_camera = keySwitch(@, key),
                   !.keyPresses = IF key \in MappedKeys THEN @ + 1 ELSE @]
    ELSE s

\* void Window::handleKeyEvent( _key, _action, GLint const & ); keyPresses
\* counts the events that reach a case of the switch
handleKeyEvent(s, key, action, mods) ==
    IF isOpen(s)
    THEN IF GLFW_PRESS = action \/ GLFW_REPEAT = action
         THEN [s EXCEPT !.m_camera = keySwitch(@, key),
                        !.keyPresses = IF key \in MappedKeys THEN @ + 1 ELSE @]
         ELSE s
    ELSE s

\* static void Window::handleKeyEvent( _window, _key, _scancode, _action, _mods )
handleKeyEventCallback(s, key, scancode, action, mods) ==
    Return(handleKeyEvent(getInstance(s), key, action, mods), 0)

\* void Window::handleResizeEvent( _width, _height )
handleResizeEvent(s, w, h) ==
    IF isOpen(s)
    THEN [s EXCEPT !.m_camera = setWindowSize(@, w, h)]
    ELSE s

\* static void Window::handleResizeEvent( _window, _width, _height )
handleResizeEventCallback(s, w, h) ==
    Return(handleResizeEvent(getInstance(s), w, h), 0)

\* void Window::handleFramebufferResizeEvent( _width, _height )
handleFramebufferResizeEvent(s, w, h) ==
    IF isOpen(s) THEN Call(s, "glViewport") ELSE s

\* static void Window::handleFramebufferResizeEvent( _window, _width, _height )
handleFramebufferResizeEventCallback(s, w, h) ==
    Return(handleFramebufferResizeEvent(getInstance(s), w, h), 0)

\* void Window::scrollCallback( window, xoffset, yoffset )
scrollCallback(s) == s

(***************************************************************************)
(* Events the library has pending for the window under the handle.         *)
(***************************************************************************)
Event(type, key, scancode, action, mods, size) ==
    [type |-> type, key |-> key, scancode |-> scancode, action |-> action,
     mods |-> mods, size |-> size]

CloseRequest == Event("close", 0, 0, 0, 0, <<0, 0>>)

\* the events of the keys KK, of both resizes, of scrolling and of closing
Events(KK) ==
    {Event("key", k, 0, a, 0, <<0, 0>>) : k \in KK, a \in KeyActions}
    \cup {Event("resize", 0, 0, 0, 0, z) : z \in Sizes}
    \cup {Event("framebuffer", 0, 0, 0, 0, z) : z \in Sizes}
    \cup {Event("scroll", 0, 0, 0, 0, <<0, 0>>), CloseRequest}

\* what one glfwPollEvents may dispatch: nothing, one event of EE, or an
\* event of EE and a close request in either order
Batches(EE) ==
    {<<>>} \cup {<<e>> : e \in EE}
    \cup {<<e, CloseRequest>> : e \in EE}
    \cup {<<CloseRequest, e>> : e \in EE}

\* the library handles one event of the window w: it updates the native
\* window and invokes the callback registered for the event, if any
dispatch(s, w, e) ==
    CASE e.type = "key" ->
           IF s.windows[w].keyCallback
           THEN handleKeyEventCallback(s, e.key, e.scancode, e.action, e.mods)
           ELSE s
      [] e.type = "resize" ->
           LET s1 == [s EXCEPT !.windows[w].size = e.size]
           IN  IF s.windows[w].sizeCallback
               THEN handleResizeEventCallback(s1, e.size[1], e.size[2])
               ELSE s1
      [] e.type = "framebuffer" ->
           IF s.windows[w].framebufferCallback
           THEN handleFramebufferResizeEventCallback(s, e.size[1], e.size[2])
           ELSE s
      [] e.type = "scroll" ->
           IF s.windows[w].scrollCallback THEN scrollCallback(s) ELSE s
      [] e.type = "close" -> [s EXCEPT !.windows[w].shouldClose = TRUE]

\* glfwPollEvents(): the pending events are dispatched in order
RECURSIVE glfwPollEvents(_, _, _)
glfwPollEvents(s, w, evs) ==
    IF evs = <<>> THEN s
    ELSE glfwPollEvents(dispatch(s, w, Head(evs)), w, Tail(evs))

(***************************************************************************)
(* Per-frame presentation.                                                 *)
(***************************************************************************)
\* swapBuffer() that tests the should-close flag before it polls the events
swapBuffer_testsFirst(s, evs) ==
    IF isOpen(s)
    THEN LET s1 == setActive(s)
             s2 == Call(s1, "glfwSwapBuffers")
             s3 == Call(s2, "glfwWindowShouldClose")
             s4 == IF s3.windows[s3.m_window].shouldClose
                   THEN close(s3) ELSE s3
         IN  IF isOpen(s4)
             THEN glfwPollEvents(Call(s4, "glfwPollEvents"), s.m_window, evs)
             ELSE s4
    ELSE s

\* void Window::swapBuffer(); evs: the events pending at glfwPollEvents
swapBuffer(s, evs) ==
    IF isOpen(s)
    THEN LET s1 == setActive(s)
             s2 == Call(s1, "glfwSwapBuffers")
             s3 == glfwPollEvents(Call(s2, "glfwPollEvents"), s.m_window, evs)
             s4 == Call(s3, "glfwWindowShouldClose")
         IN  IF s4.windows[s4.m_window].shouldClose THEN close(s4) ELSE s4
    ELSE s

\* computeFPS() that reports only after more than a second
computeFPS_late(s, t1, t2) ==
    LET s1 == [s EXCEPT !.fpsCount_ = @ + 1, !.currentTime_ = t1,
                        !.clock = t1]
        timeDiff == s1.currentTime_ - s1.lastUpdate_
    IN  IF timeDiff > 1 * TicksPerSecond
        THEN LET s2 == setWindowTitle(Divided(s1, s1.fpsCount_),
                           FormatFPS(s1.windowTitle_, s1.fpsCount_, timeDiff))
             IN  [s2 EXCEPT !.fpsCount_ = 0, !.lastUpdate_ = t2, !.clock = t2]
        ELSE s1

\* computeFPS() that counts the frame after it reported
computeFPS_countsLast(s, t1, t2) ==
    LET s1 == [s EXCEPT !.currentTime_ = t1, !.clock = t1]
        timeDiff == s1.currentTime_ - s1.lastUpdate_
    IN  IF timeDiff >= 1 * TicksPerSecond
        THEN LET s2 == setWindowTitle(Divided(s1, s1.fpsCount_),
                           FormatFPS(s1.windowTitle_, s1.fpsCount_, timeDiff))
             IN  [s2 EXCEPT !.fpsCount_ = 0, !.lastUpdate_ = t2, !.clock = t2]
        ELSE [s1 EXCEPT !.fpsCount_ = @ + 1]

\* void Window::computeFPS(); t1, t2: what the two glfwGetTime calls return
computeFPS(s, t1, t2) ==
    LET s1 == [s EXCEPT !.fpsCount_ = @ + 1, !.currentTime_ = t1,
                        !.clock = t1]
        timeDiff == s1.currentTime_ - s1.lastUpdate_
    IN  IF timeDiff >= 1 * TicksPerSecond
        THEN LET s2 == setWindowTitle(Divided(s1, s1.fpsCount_),
                           FormatFPS(s1.windowTitle_, s1.fpsCount_, timeDiff))
             IN  [s2 EXCEPT !.fpsCount_ = 0, !.lastUpdate_ = t2, !.clock = t2]
        ELSE s1

\* updateDisplay() that computes the FPS before it swaps
updateDisplay_fpsFirst(s, evs, t1, t2) ==
    swapBuffer(computeFPS(s, t1, t2), evs)

\* void Window::updateDisplay()
updateDisplay(s, evs, t1, t2) == computeFPS(swapBuffer(s, evs), t1, t2)

\* Window::CursorPosition Window::getCursorPos(); pos: the position the
\* library reports.  On the absent handle glfwGetCursorPos dereferences it:
\* the build either ends the process there (crash) or returns whatever x
\* and y hold
getCursorPos(s, pos, crash) ==
    IF isOpen(s)
    THEN Return(Call(s, "glfwGetCursorPos"), pos)
    ELSE IF crash
         THEN [CallNull(s, "glfwGetCursorPos") EXCEPT !.alive = FALSE]
         ELSE Return(CallNull(s, "glfwGetCursorPos"), pos)

(***************************************************************************)
(* Diagnostics.                                                            *)
(***************************************************************************)
\* a line written to std::cout or std::cerr
Write(s, stream, text) ==
    [s EXCEPT !.trace = Append(@, [f |-> stream, nullHandle |-> FALSE,
                                   text |-> text])]

\* the first switch of openglErrorCallback
SourceText(source) ==
    CASE source = GL_DEBUG_SOURCE_API -> "Source: API"
      [] source = GL_DEBUG_SOURCE_WINDOW_SYSTEM -> "Source: Window System"
      [] source = GL_DEBUG_SOURCE_SHADER_COMPILER -> "Source: Shader Compiler"
      [] source = GL_DEBUG_SOURCE_THIRD_PARTY -> "Source: Third Party"
      [] source = GL_DEBUG_SOURCE_APPLICATION -> "Source: Application"
      [] source = GL_DEBUG_SOURCE_OTHER -> "Source: Other"
      [] OTHER -> ""

\* the second switch of openglErrorCallback
TypeText(type) ==
    CASE type = GL_DEBUG_TYPE_ERROR -> "Type: Error"
      [] type = GL_DEBUG_TYPE_DEPRECATED_BEHAVIOR -> "Type: Deprecated Behaviour"
      [] type = GL_DEBUG_TYPE_UNDEFINED_BEHAVIOR -> "Type: Undefined Behaviour"
      [] type = GL_DEBUG_TYPE_PORTABILITY -> "Type: Portability"
      [] type = GL_DEBUG_TYPE_PERFORMANCE -> "Type: Performance"
      [] type = GL_DEBUG_TYPE_MARKER -> "Type: Marker"
      [] type = GL_DEBUG_TYPE_PUSH_GROUP -> "Type: Push Group"
      [] type = GL_DEBUG_TYPE_POP_GROUP -> "Type: Pop Group"
      [] type = GL_DEBUG_TYPE_OTHER -> "Type: Other"
      [] OTHER -> ""

\* the third switch of openglErrorCallback: the high case has no break and
\* ends in abort(), which does not return
severitySwitch(s, severity) ==
    CASE severity = GL_DEBUG_SEVERITY_HIGH ->
           LET s1 == Write(s, "std::cout", "Severity: high")
               s2 == Write(s1, "std::cerr", "Aborting...")
           IN  [Call(s2, "abort") EXCEPT !.alive = FALSE]
      [] severity = GL_DEBUG_SEVERITY_MEDIUM ->
           Write(s, "std::cout", "Severity: medium")
      [] severity = GL_DEBUG_SEVERITY_LOW ->
           Write(s, "std::cout", "Severity: low")
      [] severity = GL_DEBUG_SEVERITY_NOTIFICATION ->
           Write(s, "std::cout", "Severity: notification")
      [] OTHER -> Write(s, "std::cout", "")

\* openglErrorCallback() that looks at the severity before the identifier
openglErrorCallback_filtersLate(s, source, type, id, severity) ==
    LET s1 == Write(s, "std::cout", "Debug message")
        s2 == Write(s1, "std::cout", SourceText(source))
        s3 == Write(s2, "std::cout", TypeText(type))
    IN  IF severity = GL_DEBUG_SEVERITY_HIGH
        THEN severitySwitch(s3, severity)
        ELSE IF id = 131169 \/ id = 131185 \/ id = 131218 \/ id = 131204
             THEN s
             ELSE severitySwitch(s3, severity)

\* void Window::openglErrorCallback( _source, _type, id, severity, ... )
openglErrorCallback(s, source, type, id, severity) ==
    IF id = 131169 \/ id = 131185 \/ id = 131218 \/ id = 131204
    THEN s
    ELSE LET s1 == Write(s, "std::cout", "Debug message")
             s2 == Write(s1, "std::cout", SourceText(source))
             s3 == Write(s2, "std::cout", TypeText(type))
         IN  severitySwitch(s3, severity)

(***************************************************************************)
(* The state machine.                                                      *)
(***************************************************************************)
\* what op records of the operation that ran last
Op(name, size, success, closeRequested, key, action) ==
    [name |-> name, size |-> size, success |-> success,
     closeRequested |-> closeRequested, key |-> key, action |-> action]

Did(name) == Op(name, <<0, 0>>, FALSE, FALSE, 0, 0)

\* what op records of an open(): the title and the dimensions passed
OpenOp(name, t, size, success) ==
    [name |-> name, title |-> t, size |-> size, success |-> success,
     closeRequested |-> FALSE, key |-> 0, action |-> 0]

\* the bounds every step keeps
Bounded(s) ==
    /\ Len(s.windows) <= MaxWindows
    /\ s.fpsCount_ <= MaxFrames
    /\ s.keyPresses <= MaxKeyPresses
    /\ s.instances <= MaxInstances

\* the operation o took the state to s
Becomes(s, o) ==
    /\ alive
    /\ Bounded(s)
    /\ m_instance' = s.m_instance
    /\ instances' = s.instances
    /\ m_window' = s.m_window
    /\ m_camera' = s.m_camera
    /\ windowTitle_' = s.windowTitle_
    /\ fpsCount_' = s.fpsCount_
    /\ currentTime_' = s.currentTime_
    /\ lastUpdate_' = s.lastUpdate_
    /\ windows' = s.windows
    /\ clock' = s.clock
    /\ alive' = s.alive
    /\ keyPresses' = s.keyPresses
    /\ trace' = s.trace
    /\ ret' = s.ret
    /\ op' = o
    /\ UNCHANGED glfwInitialized

\* the program starts with m_instance NULL and no manager constructed; the
\* members of the manager hold no value yet and are written here as
\* Window() will set them
InitStatic ==
    /\ glfwInitialized \in BOOLEAN
    /\ m_instance = NULL
    /\ instances = 0
    /\ m_window = NULL
    /\ m_camera = Camera("PERSPECTIVE")
    /\ windowTitle_ = ""
    /\ fpsCount_ = 0
    /\ currentTime_ = 0
    /\ lastUpdate_ = 0
    /\ windows = <<>>
    /\ clock = 0
    /\ alive = TRUE
    /\ keyPresses = 0
    /\ op = Did("main")
    /\ trace = <<>>
    /\ ret = 0

\* the state after the first getInstance(), that is after Window::Window():
\* both glfwGetTime calls precede glfwInit and return 0;
\* the camera gets its clip planes only if glfwInit succeeds.  fpsCount_
\* and windowTitle_ have no initialiser in the constructor: they start as
\* their declarations in Window.hpp leave them, taken to be 0 and "".
Init ==
    /\ glfwInitialized \in BOOLEAN
    /\ m_instance = 1
    /\ instances = 1
    /\ m_window = NULL
    /\ m_camera = IF glfwInitialized
                  THEN setDistancePlanes(Camera("PERSPECTIVE"), 1, 10000)
                  ELSE Camera("PERSPECTIVE")
    /\ windowTitle_ = ""
    /\ fpsCount_ = 0
    /\ currentTime_ = 0
    /\ lastUpdate_ = 0
    /\ windows = <<>>
    /\ clock = 0
    /\ alive = TRUE
    /\ keyPresses = 0
    /\ op = Did("Window")
    /\ trace = <<[f |-> "glfwGetTime", nullHandle |-> FALSE],
                 [f |-> "glfwGetTime", nullHandle |-> FALSE],
                 [f |-> "glfwInit", nullHandle |-> FALSE]>>
    /\ ret = 0

\* the outcomes glfwCreateWindow can have: it fails when glfwInit did
CanCreate == IF glfwInitialized THEN BOOLEAN ELSE {FALSE}

HasCloseRequest(evs) == \E i \in 1..Len(evs) : evs[i] = CloseRequest

\* the key event of a batch (a batch holds at most one), or the close request
KeyEventOf(evs) ==
    IF \E i \in 1..Len(evs) : evs[i].type = "key"
    THEN evs[CHOOSE i \in 1..Len(evs) : evs[i].type = "key"]
    ELSE CloseRequest

\* the outcomes glfwCreateWindow, glewInit and glewIsSupported can have in
\* open, and the outcome of its calls on the absent handle (crash), which
\* are made only when one of the three failed
Outcomes ==
    {o \in [created : CanCreate, glewOk : BOOLEAN, supported : BOOLEAN,
            crash : BOOLEAN] :
        (o.created /\ o.glewOk /\ o.supported) => ~o.crash}

Succeeds(o) == o.created /\ o.glewOk /\ o.supported

\* open( t, w, h ) with a title of TT and dimensions of ZZ
Open(TT, ZZ) ==
    \E t \in TT, z \in ZZ, o \in Outcomes :
        Becomes(open(State, t, z, o.created, o.glewOk, o.supported, o.crash),
                OpenOp("open", t, z, Succeeds(o)))

OpenDefault(TT) ==
    \E t \in TT, o \in Outcomes :
        Becomes(openDefault(State, t, o.created, o.glewOk, o.supported,
                            o.crash),
                OpenOp("openDefault", t, <<WIDTH, HEIGHT>>, Succeeds(o)))

Close == Becomes(close(State), Did("close"))

SetActive == Becomes(setActive(State), Did("setActive"))

SetWindowTitle(TT) ==
    \E t \in TT : Becomes(setWindowTitle(State, Plain(t)),
                          Did("setWindowTitle"))

GetWidth == Becomes(getWidth(State), Did("getWidth"))

GetHeight == Becomes(getHeight(State), Did("getHeight"))

\* swapBuffer() with a batch of BB pending
SwapBuffer(BB) ==
    \E evs \in BB :
        Becomes(swapBuffer(State, evs),
                Op("swapBuffer", <<0, 0>>, FALSE, HasCloseRequest(evs),
                   KeyEventOf(evs).key, KeyEventOf(evs).action))

\* computeFPS() with the clock read before or at untilT
ComputeFPS(untilT) ==
    \E t1 \in clock..untilT : \E t2 \in t1..untilT :
        Becomes(computeFPS(State, t1, t2), Did("computeFPS"))

UpdateDisplay(BB, untilT) ==
    \E evs \in BB : \E t1 \in clock..untilT : \E t2 \in t1..untilT :
        Becomes(updateDisplay(State, evs, t1, t2),
                Op("updateDisplay", <<0, 0>>, FALSE, HasCloseRequest(evs),
                   KeyEventOf(evs).key, KeyEventOf(evs).action))

GetCursorPos ==
    \E pos \in {<<0, 0>>, <<3, 4>>}, crash \in BOOLEAN :
        Becomes(getCursorPos(State, pos, crash), Did("getCursorPos"))

\* the handlers, called as the library calls them or by the application
HandleKeyEvent(KK) ==
    \E k \in KK, sc \in ScanCodes, a \in KeyActions, m \in Mods :
        Becomes(handleKeyEventCallback(State, k, sc, a, m),
                Op("handleKeyEvent", <<0, 0>>, FALSE, FALSE, k, a))

HandleResizeEvent ==
    \E z \in Sizes : Becomes(handleResizeEventCallback(State, z[1], z[2]),
                             Did("handleResizeEvent"))

HandleFramebufferResizeEvent ==
    \E z \in Sizes :
        Becomes(handleFramebufferResizeEventCallback(State, z[1], z[2]),
                Did("handleFramebufferResizeEvent"))

(***************************************************************************)
(* Spec: the window's lifecycle.  Every operation of the lifecycle with    *)
(* the clock standing still; key events reach the handler while the window *)
(* is closed, and every other event while it is open or closed.            *)
(***************************************************************************)
NoKeys == {}

\* the keys delivered to a closed window: a mapped and an unmapped one
LifeKeys == {GLFW_KEY_W, GLFW_KEY_SPACE}

Next ==
    \/ Open(Titles, Sizes)
    \/ OpenDefault(Titles)
    \/ Close
    \/ SetActive
    \/ SetWindowTitle(Titles)
    \/ GetWidth
    \/ GetHeight
    \/ SwapBuffer(Batches(Events(NoKeys)))
    \/ GetCursorPos
    \/ (~isOpen(State) /\ HandleKeyEvent(LifeKeys))
    \/ HandleResizeEvent
    \/ HandleFramebufferResizeEvent

Spec == Init /\ [][Next]_vars

(***************************************************************************)
(* SpecInput: input dispatch.  A window of one title and size is opened    *)
(* once and closed; every key reaches the handler, directly and through    *)
(* glfwPollEvents, with the window open or closed.                         *)
(***************************************************************************)
KeyEvents == {e \in Events(Keys) : e.type = "key"}

\* what one glfwPollEvents may dispatch: nothing, or one event of EE
Singles(EE) == {<<>>} \cup {<<e>> : e \in EE}

NextInput ==
    \/ (windows = <<>> /\ Open({"A"}, {<<WIDTH, HEIGHT>>}))
    \/ Close
    \/ SwapBuffer(Singles(KeyEvents \cup {CloseRequest}))
    \/ HandleKeyEvent(Keys)

SpecInput == Init /\ [][NextInput]_vars

(***************************************************************************)
(* SpecReopen: the camera across close and open.  A window of one title is *)
(* opened, resized, closed and reopened with either size, while keys of    *)
(* one translation, one rotation and the reset move the camera.            *)
(***************************************************************************)
ReopenKeys == {GLFW_KEY_W, GLFW_KEY_LEFT, GLFW_KEY_R}

PressEvents(KK) == {e \in Events(KK) : e.type = "key" /\ e.action = GLFW_PRESS}

NextReopen ==
    \/ Open({"A"}, Sizes)
    \/ Close
    \/ SwapBuffer(Batches(PressEvents(ReopenKeys)))
    \/ HandleResizeEvent

SpecReopen == Init /\ [][NextReopen]_vars

(***************************************************************************)
(* SpecFPS: the frame counter.  The clock advances; a window of one size   *)
(* is opened once, shown frame by frame, and closed by the application or  *)
(* by a close request.                                                     *)
(***************************************************************************)
NextFPS ==
    \/ ((windows = <<>> \/ isOpen(State))
          /\ Open(Titles, {<<WIDTH, HEIGHT>>}))
    \/ Close
    \/ SetWindowTitle(Titles)
    \/ ComputeFPS(MaxTime)
    \/ UpdateDisplay({<<>>, <<CloseRequest>>}, MaxTime)

SpecFPS == Init /\ [][NextFPS]_vars

(***************************************************************************)
(* The life cycle: the window is opened, shown frame by frame while events *)
(* arrive, closed by the application or by a close request, and opened     *)
(* again; key events also arrive while it is closed.                       *)
(***************************************************************************)
LifeEvents ==
    PressEvents({GLFW_KEY_W}) \cup {Event("resize", 0, 0, 0, 0, <<640, 480>>)}

NextLife ==
    \/ Open({"A"}, {<<WIDTH, HEIGHT>>})
    \/ OpenDefault({"A"})
    \/ Close
    \/ UpdateDisplay(Batches(LifeEvents), 1)
    \/ HandleKeyEvent({GLFW_KEY_W})

SpecLife == Init /\ [][NextLife]_vars

(***************************************************************************)
(* The camera: the keys are pressed and held on the window, which is       *)
(* opened once and closed by the application or by a close request.        *)
(***************************************************************************)
HeldKeyEvents == {e \in KeyEvents : e.action # GLFW_RELEASE}

NextCamera ==
    \/ (windows = <<>> /\ Open({"A"}, {<<WIDTH, HEIGHT>>}))
    \/ Close
    \/ SwapBuffer(Batches(HeldKeyEvents))

SpecCamera == Init /\ [][NextCamera]_vars

(***************************************************************************)
(* The singleton: the application asks for the manager and works on the    *)
(* one it got; the static callbacks ask for it themselves, whether or not  *)
(* one was constructed before.                                             *)
(***************************************************************************)
GetInstance == Becomes(getInstance(State), Did("getInstance"))

NextInstance ==
    \/ GetInstance
    \/ (NULL # m_instance /\ Open({"A"}, {<<WIDTH, HEIGHT>>}))
    \/ (NULL # m_instance /\ Close)
    \/ (NULL # m_instance /\ SwapBuffer(Batches(LifeEvents)))
    \/ HandleKeyEvent({GLFW_KEY_W})
    \/ HandleResizeEvent
    \/ HandleFramebufferResizeEvent

SpecInstance == InitStatic /\ [][NextInstance]_vars

(***************************************************************************)
(* Diagnostics: the driver reports debug messages to the callback that     *)
(* open() registers, while windows are opened and closed.                  *)
(***************************************************************************)
\* the identifiers, severities, sources and types of the messages reported
DebugIds == {131169, 131185, 131218, 131204, 1, 131170}

Severities == {GL_DEBUG_SEVERITY_HIGH, GL_DEBUG_SEVERITY_MEDIUM,
               GL_DEBUG_SEVERITY_LOW, GL_DEBUG_SEVERITY_NOTIFICATION}

DebugSources == {GL_DEBUG_SOURCE_API, GL_DEBUG_SOURCE_OTHER}

DebugTypes == {GL_DEBUG_TYPE_ERROR, GL_DEBUG_TYPE_PERFORMANCE}

\* what op records of a debug message
DebugOp(id, severity) ==
    [name |-> "openglErrorCallback", size |-> <<0, 0>>, success |-> FALSE,
     closeRequested |-> FALSE, key |-> 0, action |-> 0,
     id |-> id, severity |-> severity]

OpenglErrorCallback ==
    \E source \in DebugSources : \E type \in DebugTypes :
    \E id \in DebugIds : \E severity \in Severities :
        Becomes(openglErrorCallback(State, source, type, id, severity),
                DebugOp(id, severity))

NextDebug ==
    \/ Open({"A"}, {<<WIDTH, HEIGHT>>})
    \/ Close
    \/ OpenglErrorCallback

SpecDebug == Init /\ [][NextDebug]_vars

(***************************************************************************)
(* Properties.                                                             *)
(***************************************************************************)
OpenOps == {"open", "openDefault"}

\* the library calls named f that the last operation issued
CallsOf(tr, f) == {i \in 1..Len(tr) : tr[i].f = f}

\* the last operation handed the absent handle to the library
PassedNull(tr) == \E i \in 1..Len(tr) : tr[i].nullHandle

\* some callback is registered on the native window win
AnyCallback(win) ==
    \/ win.keyCallback
    \/ win.sizeCallback
    \/ win.framebufferCallback
    \/ win.scrollCallback

\* C1: isOpen() is false while no window was ever created (so before any
\* open), false right after every close(), true right after every open()
\* in which window creation, glewInit and the version check succeeded, and
\* true exactly when the handle refers to a native window.
C1_IsOpenFollowsLifecycle ==
    /\ (windows = <<>> => ~isOpen(State))
    /\ (op.name = "close" => ~isOpen(State))
    /\ (op.name \in OpenOps /\ op.success => isOpen(State))
    /\ (isOpen(State) <=> m_window \in DOMAIN windows)

\* C1 witness: a window was opened, closed and successfully opened again.
C1_Witness ==
    /\ op.name = "open"
    /\ op.success
    /\ isOpen(State)
    /\ Len(windows) = 2
    /\ m_window = 2

\* C2 (as claimed): an open() on a closed window that creates the native
\* window and in which glewInit or the version check fails returns with the handle absent, no
\* callback registered on the window it created, no scroll-callback
\* registration (a step of the success path only) issued, and the stored
\* title unchanged.
C2_FailedOpenAppliesNothing ==
    [][(/\ op'.name \in OpenOps
        /\ ~isOpen(State)
        /\ Len(windows') = Len(windows) + 1
        /\ ~op'.success
        /\ alive')
         => /\ m_window' = NULL
            /\ \A w \in DOMAIN windows' \ DOMAIN windows :
                   ~AnyCallback(windows'[w])
            /\ CallsOf(trace', "glfwSetScrollCallback") = {}
            /\ windowTitle_' = windowTitle_]_vars

\* C3: open() on an open window changes nothing, whatever its arguments:
\* handle, native windows (dimensions, callbacks), stored title and camera
\* stay as they are and no library call is issued.
C3_OpenWhileOpenIsNoOp ==
    [][(op'.name \in OpenOps /\ isOpen(State))
         => /\ UNCHANGED <<m_window, windows, windowTitle_, m_camera,
                           fpsCount_, currentTime_, lastUpdate_, alive>>
            /\ trace' = <<>>]_vars

\* C3 witness: an open() that found the window open and issued no call.
C3_Witness ==
    /\ op.name \in OpenOps
    /\ trace = <<>>
    /\ isOpen(State)
    /\ windowTitle_ = "A"
    /\ windows[m_window].size = <<640, 480>>

\* C4 (as claimed): while the window is closed no callback is registered
\* on any native window: close() unregistered the key, window-resize,
\* framebuffer-resize and scroll callbacks.
C4_ClosedHasNoCallback ==
    ~isOpen(State) => \A w \in DOMAIN windows : ~AnyCallback(windows[w])

\* the operations that touch the window
WindowOps ==
    {"close", "setActive", "setWindowTitle", "getWidth", "getHeight",
     "swapBuffer", "getCursorPos", "handleKeyEvent", "handleResizeEvent",
     "handleFramebufferResizeEvent"}

\* C5 (as claimed): with the handle absent, every operation that touches
\* the window returns without ending the process, hands no absent handle
\* to the library, leaves the manager and the native windows as they are,
\* and returns 0 (the size accessors) or the zero position (getCursorPos).
C5_ClosedOperationsAreNoOps ==
    [][(~isOpen(State) /\ op'.name \in WindowOps)
         => /\ alive'
            /\ ~PassedNull(trace')
            /\ UNCHANGED <<m_window, m_camera, windowTitle_, fpsCount_,
                           currentTime_, lastUpdate_, windows>>
            /\ (op'.name \in {"getWidth", "getHeight"} => ret' = 0)
            /\ (op'.name = "getCursorPos" => ret' = <<0, 0>>)]_vars

\* C6: getWidth() and getHeight() return 0 while the window is closed and
\* the native window's current width and height while it is open; the
\* window a successful open() created has the dimensions passed to it.
C6_SizeAccessors ==
    /\ (op.name = "getWidth"
          => ret = IF isOpen(State) THEN windows[m_window].size[1] ELSE 0)
    /\ (op.name = "getHeight"
          => ret = IF isOpen(State) THEN windows[m_window].size[2] ELSE 0)
    /\ (op.name \in OpenOps /\ op.success /\ trace # <<>>
          => windows[m_window].size = op.size)

\* C6 witness: getWidth() returned 0 on a window that was opened with
\* 640 x 480 and then closed.
C6_Witness ==
    /\ op.name = "getWidth"
    /\ ret = 0
    /\ ~isOpen(State)
    /\ Len(windows) = 1
    /\ windows[1].size = <<640, 480>>
    /\ windows[1].scrollCallback

\* C8: swapBuffer() on an open window activates the context, swaps the
\* buffers, polls the events (the calls the callbacks issue come next) and
\* then tests the should-close flag once; the window is closed when it
\* returns if a close request was pending at the poll, and still open
\* under the same handle if none was.
C8_SwapBufferPollsThenCloses ==
    [][(op'.name = "swapBuffer" /\ isOpen(State))
         => /\ Len(trace') >= 4
            /\ trace'[1].f = "glfwMakeContextCurrent"
            /\ trace'[2].f = "glfwSwapBuffers"
            /\ trace'[3].f = "glfwPollEvents"
            /\ Cardinality(CallsOf(trace', "glfwWindowShouldClose")) = 1
            /\ \A i \in CallsOf(trace', "glfwWindowShouldClose") :
                   \A j \in 4..(i - 1) : trace'[j].f = "glViewport"
            /\ (op'.closeRequested => m_window' = NULL)
            /\ (~op'.closeRequested => m_window' = m_window)]_vars

\* C8 witness: a swapBuffer() during whose poll a framebuffer resize and a
\* close request arrived, and which closed the window.
C8_Witness ==
    /\ op.name = "swapBuffer"
    /\ op.closeRequested
    /\ ~isOpen(State)
    /\ CallsOf(trace, "glViewport") # {}
    /\ CallsOf(trace, "glfwWindowShouldClose") # {}

\* C7 (as claimed): close() leaves the camera and the stored title as they
\* are, and the open() that follows the close() of an open window leaves
\* the whole camera as it was before the close.
C7_CameraSameAcrossReopen ==
    [][/\ (op'.name = "close"
             => m_camera' = m_camera /\ windowTitle_' = windowTitle_)
       /\ (op.name = "close" /\ trace # <<>> /\ op'.name \in OpenOps
             => m_camera' = m_camera)]_vars

\* C7 (amended): close() leaves the camera and the stored title as they
\* are; open() leaves the eye point, yaw, pitch,
\* projection type and clip planes as they are and sets only the camera's
\* window size, to the dimensions passed to it (on a closed window).
C7_ViewpointSameAcrossReopen ==
    [][/\ (op'.name = "close"
             => m_camera' = m_camera /\ windowTitle_' = windowTitle_)
       /\ (op'.name \in OpenOps
             => m_camera' = [m_camera EXCEPT !.windowSize =
                               IF isOpen(State) THEN @ ELSE op'.size])
      ]_vars

\* C7 witness: the camera was moved and turned, the window closed, and a
\* window of another size opened: the viewpoint is the moved one.
C7_Witness ==
    /\ op.name = "open"
    /\ op.success
    /\ Len(windows) = 2
    /\ m_window = 2
    /\ windows[1].size # windows[2].size
    /\ m_camera.eye # DefaultEyePoint
    /\ m_camera.yaw # 0

FrameOps == {"computeFPS", "updateDisplay"}

\* the native titles are what they were
TitlesUnchanged ==
    \A w \in DOMAIN windows : windows'[w].title = windows[w].title

\* C9 (as claimed): a computeFPS() that finds less than a second elapsed
\* since the last report sets no title, counts the frame and keeps the
\* timestamp of the last report; one that finds a second or more elapsed
\* sets the title exactly once, resets the counter to 0 and takes a new
\* timestamp.
C9_TitleSetOncePerSecond ==
    [][op'.name \in FrameOps
         => LET timeDiff == currentTime_' - lastUpdate_
            IN  IF timeDiff < 1 * TicksPerSecond
                THEN /\ CallsOf(trace', "glfwSetWindowTitle") = {}
                     /\ TitlesUnchanged
                     /\ fpsCount_' = fpsCount_ + 1
                     /\ lastUpdate_' = lastUpdate_
                ELSE /\ Cardinality(CallsOf(trace', "glfwSetWindowTitle")) = 1
                     /\ fpsCount_' = 0
                     /\ lastUpdate_' >= currentTime_']_vars

\* C9 (amended): as claimed, but the title is set (once, to the stored
\* base title with the FPS and ms/frame figures) only if the window is
\* open when computeFPS() runs; with the window closed no title is set,
\* and the counter and the timestamp are reset all the same.
C9_TitleSetOncePerSecondWhileOpen ==
    [][op'.name \in FrameOps
         => LET timeDiff == currentTime_' - lastUpdate_
            IN  IF timeDiff < 1 * TicksPerSecond
                THEN /\ CallsOf(trace', "glfwSetWindowTitle") = {}
                     /\ TitlesUnchanged
                     /\ fpsCount_' = fpsCount_ + 1
                     /\ lastUpdate_' = lastUpdate_
                ELSE /\ IF isOpen(State')
                        THEN /\ Cardinality(CallsOf(trace',
                                    "glfwSetWindowTitle")) = 1
                             /\ windows'[m_window'].title =
                                  FormatFPS(windowTitle_, fpsCount_ + 1,
                                            timeDiff)
                        ELSE /\ CallsOf(trace', "glfwSetWindowTitle") = {}
                             /\ TitlesUnchanged
                     /\ fpsCount_' = 0
                     /\ lastUpdate_' >= currentTime_']_vars

\* C9 witness: frames were counted below the threshold, then a
\* computeFPS() on the open window reported and reset the counter.
C9_Witness ==
    /\ op.name = "computeFPS"
    /\ isOpen(State)
    /\ windows[m_window].title.formatted
    /\ windows[m_window].title.fps10 > 10
    /\ fpsCount_ = 0
    /\ CallsOf(trace, "glfwSetWindowTitle") # {}

\* C10: a key event, delivered directly or by glfwPollEvents, leaves the
\* camera as it is when its action is release, when the window is closed
\* or when the key is none of the mapped ones; and what it does to the
\* camera is fixed by the key and the action alone, whatever the scan code
\* and the modifier flags.
C10_KeyActsOnPressWhileOpen ==
    [][(op'.name \in {"handleKeyEvent", "swapBuffer"} /\ op'.key # 0)
         => /\ (\/ op'.action = GLFW_RELEASE
                \/ ~isOpen(State)
                \/ op'.key \notin MappedKeys)
                  => m_camera' = m_camera
            /\ m_camera' =
                 handleKeyEvent(State, op'.key, op'.action, 0).m_camera
      ]_vars

\* C10 witness: the release of W reached the handler of an open window
\* whose camera an earlier press had moved.
C10_Witness ==
    /\ op.name = "handleKeyEvent"
    /\ op.key = GLFW_KEY_W
    /\ op.action = GLFW_RELEASE
    /\ isOpen(State)
    /\ m_camera.eye # DefaultEyePoint

\* the key events that reach the switch of the handler of an open window
KeyOps == {"handleKeyEvent", "swapBuffer", "updateDisplay"}

Acts(o) == o.name \in KeyOps /\ o.action \in {GLFW_PRESS, GLFW_REPEAT}

\* C11: a press (or repeat) of the reset key on an open window sets the eye
\* point to (0, 0, 500, 1) and yaw and pitch to 0, whatever the camera was
\* before, and leaves the rest of the camera as it is.
C11_ResetKeyRestoresDefault ==
    [][(Acts(op') /\ op'.key = GLFW_KEY_R /\ isOpen(State))
         => m_camera' = [m_camera EXCEPT !.eye = <<0, 0, 500, 1>>,
                                         !.yaw = 0, !.pitch = 0]]_vars

\* C11 witness: two mapped keys were pressed on the open window, the second
\* one the reset key, and the camera is at the default point, unturned.
C11_Witness ==
    /\ op.name = "swapBuffer"
    /\ op.key = GLFW_KEY_R
    /\ op.action = GLFW_PRESS
    /\ keyPresses = 2
    /\ m_camera.eye = DefaultEyePoint
    /\ m_camera.yaw = 0
    /\ m_camera.pitch = 0

\* the case labels of the switch by what their case calls
TranslationKeys == {GLFW_KEY_W, GLFW_KEY_S, GLFW_KEY_A, GLFW_KEY_D,
                    GLFW_KEY_Q, GLFW_KEY_E}

YawKeys == {GLFW_KEY_LEFT, GLFW_KEY_RIGHT}

PitchKeys == {GLFW_KEY_UP, GLFW_KEY_DOWN}

MovementKeys == TranslationKeys \cup YawKeys \cup PitchKeys

\* the step changes the one property of the camera that the key is for
OnePropertyChanges ==
    /\ (op'.key \in TranslationKeys
          => /\ m_camera' = [m_camera EXCEPT !.eye = m_camera'.eye]
             /\ m_camera'.eye # m_camera.eye)
    /\ (op'.key \in YawKeys
          => /\ m_camera' = [m_camera EXCEPT !.yaw = m_camera'.yaw]
             /\ m_camera'.yaw # m_camera.yaw)
    /\ (op'.key \in PitchKeys
          => /\ m_camera' = [m_camera EXCEPT !.pitch = m_camera'.pitch]
             /\ m_camera'.pitch # m_camera.pitch)

\* C12 (as claimed): the keys that move or turn the camera are 8, and a
\* press of one of them on an open window changes exactly one property of
\* the camera: a translation key the eye point, a yaw key the yaw, a pitch
\* key the pitch.
C12_EightKeysOneProperty ==
    [][(Acts(op') /\ isOpen(State) /\ op'.key \in MovementKeys)
         => /\ Cardinality(MovementKeys) = 8
            /\ OnePropertyChanges]_vars

\* C12 (amended): the keys that move or turn the camera are 10 (six
\* translation keys, two yaw keys, two pitch keys), and a press of one of
\* them on an open window changes exactly one property of the camera: a
\* translation key the eye point, a yaw key the yaw, a pitch key the pitch.
C12_TenKeysOneProperty ==
    [][(Acts(op') /\ isOpen(State) /\ op'.key \in MovementKeys)
         => /\ Cardinality(MovementKeys) = 10
            /\ MovementKeys = MappedKeys \ {GLFW_KEY_R}
            /\ OnePropertyChanges]_vars

\* C12 witness: the camera was turned and then moved sideways; the
\* translation key left the yaw as the yaw key had set it.
C12_Witness ==
    /\ op.name = "swapBuffer"
    /\ op.key = GLFW_KEY_A
    /\ op.action = GLFW_PRESS
    /\ keyPresses = 2
    /\ m_camera.yaw = 5
    /\ m_camera.pitch = 0
    /\ m_camera.eye # DefaultEyePoint

\* the output written
Output(tr) == {i \in 1..Len(tr) : tr[i].f \in {"std::cout", "std::cerr"}}

\* C13: the debug-message callback writes nothing and does not end the
\* process for a message whose identifier is 131169, 131185, 131218 or
\* 131204, whatever its severity; for any other message it writes the
\* message out, ends the process by abort() if the severity is high, and
\* does not end it if the severity is medium, low or notification.  It
\* changes nothing of the window.
C13_DebugCallbackFiltersAndAborts ==
    [][op'.name = "openglErrorCallback"
         => /\ IF op'.id \in {131169, 131185, 131218, 131204}
               THEN trace' = <<>> /\ alive'
               ELSE /\ Output(trace') # {}
                    /\ (op'.severity = GL_DEBUG_SEVERITY_HIGH
                          => /\ ~alive'
                             /\ trace'[Len(trace')].f = "abort")
                    /\ (op'.severity \in {GL_DEBUG_SEVERITY_MEDIUM,
                                           GL_DEBUG_SEVERITY_LOW,
                                           GL_DEBUG_SEVERITY_NOTIFICATION}
                          => alive' /\ CallsOf(trace', "abort") = {})
            /\ UNCHANGED <<m_window, m_camera, windowTitle_, fpsCount_,
                           windows>>]_vars

\* C13 witness: a message of high severity with an identifier of the list
\* was reported while the window was open, and the process runs on.
C13_Witness ==
    /\ op.name = "openglErrorCallback"
    /\ op.id = 131218
    /\ op.severity = GL_DEBUG_SEVERITY_HIGH
    /\ isOpen(State)
    /\ alive
    /\ trace = <<>>

\* the operations that call getInstance()
InstanceOps == {"getInstance", "handleKeyEvent", "handleResizeEvent",
                "handleFramebufferResizeEvent"}

\* C14: no manager exists before the first getInstance(); the first call,
\* made by the application or by a static callback, constructs one; no
\* later call constructs another, and every getInstance() returns the one
\* constructed: at most one manager is ever constructed.
C14_OneInstance ==
    [][/\ instances' <= 1
       /\ (NULL = m_instance <=> instances = 0)
       /\ (NULL = m_instance /\ op'.name \in InstanceOps
             => NULL # m_instance' /\ instances' = 1)
       /\ (NULL = m_instance /\ op'.name \notin InstanceOps
             => NULL = m_instance' /\ instances' = 0)
       /\ (NULL # m_instance
             => m_instance' = m_instance /\ instances' = instances)
       /\ (op'.name = "getInstance"
             => ret' = m_instance' /\ NULL # ret')]_vars

\* C14 witness: the static resize callback found the manager whose window
\* the application had opened, and no second manager was constructed.
C14_Witness ==
    /\ op.name = "handleResizeEvent"
    /\ instances = 1
    /\ m_instance = 1
    /\ isOpen(State)
    /\ m_camera.windowSize = <<640, 480>>

\* the divisions by the frame counter
Divisions(tr) == {i \in 1..Len(tr) : tr[i].f = "operator/"}

\* C15: a computeFPS() that takes the reporting branch divides by the
\* frame counter once, and the divisor is the counter the call found plus
\* one, so at least 1; one that does not take the branch does not divide;
\* no title ever shows the result of a division by zero.
C15_DivisorNonZero ==
    [][op'.name \in FrameOps
         => /\ IF currentTime_' - lastUpdate_ >= 1 * TicksPerSecond
               THEN /\ Cardinality(Divisions(trace')) = 1
                    /\ \A i \in Divisions(trace') :
                          /\ trace'[i].divisor = fpsCount_ + 1
                          /\ trace'[i].divisor >= 1
               ELSE Divisions(trace') = {}
            /\ \A w \in DOMAIN windows' : ~windows'[w].title.inf]_vars

\* C15 witness: a computeFPS() that found the counter at 0 and a second
\* elapsed reported: it divided by 1.
C15_Witness ==
    /\ op.name = "computeFPS"
    /\ fpsCount_ = 0
    /\ lastUpdate_ >= 1 * TicksPerSecond
    /\ \E i \in Divisions(trace) : trace[i].divisor = 1

\* the step set the displayed title of the window under the handle
SetsTitle == CallsOf(trace', "glfwSetWindowTitle") # {}

\* what setWindowTitle() and the operations that are no open() do to the
\* stored title: nothing
StoredTitleKept ==
    /\ (op'.name = "setWindowTitle"
          => /\ UNCHANGED <<windowTitle_, m_window, m_camera, fpsCount_,
                            currentTime_, lastUpdate_>>
             /\ \A w \in DOMAIN windows :
                   windows'[w] = [windows[w] EXCEPT
                                    !.title = windows'[w].title]
             /\ \A w \in DOMAIN windows \ {m_window} :
                   windows'[w] = windows[w])
    /\ (op'.name \notin OpenOps => windowTitle_' = windowTitle_)

\* C16 (as claimed): setWindowTitle() and every operation other than open()
\* leave the stored title as it is, and a title the FPS path sets right
\* after an open() is formed from the title given to that open().
C16_FPSTitleFromLastOpen ==
    [][/\ StoredTitleKept
       /\ (op.name \in OpenOps /\ op'.name \in FrameOps /\ SetsTitle
             => windows'[m_window'].title.text = op.title)]_vars

\* C16 (amended): setWindowTitle() and every operation other than open()
\* leave the stored title as it is; an open() stores the title given to it
\* if it finds the window closed and stores nothing if it finds it open;
\* and every title the FPS path sets is formed from the stored title, that
\* is from the title given to the last open() made on a closed window.
C16_FPSTitleFromStoredTitle ==
    [][/\ StoredTitleKept
       /\ (op'.name \in OpenOps
             => windowTitle_' = IF ~isOpen(State) /\ alive'
                                THEN op'.title ELSE windowTitle_)
       /\ (op'.name \in FrameOps /\ SetsTitle
             => /\ windows'[m_window'].title.formatted
                /\ windows'[m_window'].title.text = windowTitle_)]_vars

\* C16 witness: after the FPS path had set a title formed from the stored
\* title "A", setWindowTitle() displayed another title; the stored title
\* is still "A".
C16_Witness ==
    /\ op.name = "setWindowTitle"
    /\ isOpen(State)
    /\ windowTitle_ = "A"
    /\ windows[m_window].title = Plain("B")
    /\ lastUpdate_ >= 1 * TicksPerSecond

\* the native windows that exist: the library destroys a window only in
\* glfwDestroyWindow or glfwTerminate, and no operation calls either
LiveWindows == DOMAIN windows

\* C17 (as claimed): the native windows that exist are the one under the
\* handle while the window is open, and none while it is closed.
C17_OneNativeWindow ==
    LiveWindows = IF isOpen(State) THEN {m_window} ELSE {}

\* the swaps, event polls and title changes issued
WindowCalls(tr) ==
    {i \in 1..Len(tr) : tr[i].f \in {"glfwSwapBuffers", "glfwPollEvents",
                                     "glfwSetWindowTitle"}}

\* the step counted a frame as computeFPS() does: the time was read, and
\* the counter went up by one below the threshold and back to 0 at it
FrameCounted ==
    /\ currentTime_' >= currentTime_
    /\ IF currentTime_' - lastUpdate_ >= 1 * TicksPerSecond
       THEN fpsCount_' = 0 /\ lastUpdate_' >= currentTime_'
       ELSE fpsCount_' = fpsCount_ + 1 /\ lastUpdate_' = lastUpdate_

\* C18 (as claimed): updateDisplay() counts the frame whatever the window
\* is; when the window is closed, or is closed by the swapBuffer() of the
\* same call, no swap, event poll or title change is issued.
C18_ClosedFrameIssuesNothing ==
    [][op'.name = "updateDisplay"
         => /\ FrameCounted
            /\ (~isOpen(State) \/ ~isOpen(State')
                  => WindowCalls(trace') = {} /\ TitlesUnchanged)]_vars

\* C18 (amended): updateDisplay() counts the frame whatever the window is.
\* When the window is closed at the call, no swap, event poll or title
\* change is issued; when it is open, the swap and the event poll are
\* issued, in this order and before any title change; and when the
\* swapBuffer() of the call closes it, no title change is issued.
C18_FrameCountedWhateverTheWindow ==
    [][op'.name = "updateDisplay"
         => /\ FrameCounted
            /\ (~isOpen(State)
                  => /\ WindowCalls(trace') = {}
                     /\ TitlesUnchanged
                     /\ ~isOpen(State'))
            /\ (isOpen(State)
                  => /\ Cardinality(CallsOf(trace', "glfwSwapBuffers")) = 1
                     /\ Cardinality(CallsOf(trace', "glfwPollEvents")) = 1
                     /\ \A i \in CallsOf(trace', "glfwSwapBuffers") :
                        \A j \in CallsOf(trace', "glfwPollEvents") :
                        \A k \in CallsOf(trace', "glfwSetWindowTitle") :
                            i < j /\ j < k
                     /\ (isOpen(State') <=> ~op'.closeRequested))
            /\ (isOpen(State) /\ ~isOpen(State')
                  => /\ CallsOf(trace', "glfwSetWindowTitle") = {}
                     /\ TitlesUnchanged)]_vars

\* C18 witness: an updateDisplay() on the open window met a close request
\* a second after the last report: it swapped, closed the window, reset
\* the counter and set no title.
C18_Witness ==
    /\ op.name = "updateDisplay"
    /\ op.closeRequested
    /\ ~isOpen(State)
    /\ CallsOf(trace, "glfwSwapBuffers") # {}
    /\ fpsCount_ = 0
    /\ lastUpdate_ >= 1 * TicksPerSecond
    /\ \A w \in DOMAIN windows : ~windows[w].title.formatted

\* the pairs of keys whose cases call the same operation with opposite steps
InversePairs == {<<GLFW_KEY_W, GLFW_KEY_S>>, <<GLFW_KEY_A, GLFW_KEY_D>>,
                 <<GLFW_KEY_Q, GLFW_KEY_E>>,
                 <<GLFW_KEY_LEFT, GLFW_KEY_RIGHT>>,
                 <<GLFW_KEY_UP, GLFW_KEY_DOWN>>}

\* a press of the key reaches the handler
Press(s, key) == handleKeyEvent(s, key, GLFW_PRESS, 0)

\* n presses of the key
RECURSIVE Presses(_, _, _)
Presses(s, key, n) ==
    IF n = 0 THEN s ELSE Presses(Press(s, key), key, n - 1)

\* the camera n single-press steps of the key away from cam: 10 units of
\* translation along (or against) one of its directions, or 5 units of
\* rotation
StepsAway(cam, key, n) ==
    LET along(dir, sign) ==
            [cam EXCEPT !.eye = [i \in 1..4 |->
                                   cam.eye[i] + n * sign * dir[i]]]
    IN  CASE key = GLFW_KEY_W -> along(viewDirection(cam), 1)
          [] key = GLFW_KEY_S -> along(viewDirection(cam), -1)
          [] key = GLFW_KEY_A -> along(horizontalDirection(cam), 1)
          [] key = GLFW_KEY_D -> along(horizontalDirection(cam), -1)
          [] key = GLFW_KEY_Q -> along(upDirection(cam), 1)
          [] key = GLFW_KEY_E -> along(upDirection(cam), -1)
          [] key = GLFW_KEY_LEFT -> [cam EXCEPT !.yaw = @ + n * 5]
          [] key = GLFW_KEY_RIGHT -> [cam EXCEPT !.yaw = @ - n * 5]
          [] key = GLFW_KEY_UP -> [cam EXCEPT !.pitch = @ + n * 5]
          [] key = GLFW_KEY_DOWN -> [cam EXCEPT !.pitch = @ - n * 5]

====
